---------------------------- MODULE Spec2Model ----------------------------
(***************************************************************************)
(* Siraaj: the three one-off patch scripts for                             *)
(* internal/repository/event_repository.go.                                *)
(*                                                                         *)
(*   fix_parquet_funcs.py    line-oriented inserter of                      *)
(*                           "parquetSource := r.getParquetSource()"       *)
(*   fix_parquet_queries.py  re.sub of the general fmt.Sprintf pattern     *)
(*   fix_sprintf.py          re.sub of the month-timeline pattern          *)
(*                                                                         *)
(* Text is a sequence of tokens; a token is a fragment of characters that  *)
(* the scripts' substring tests and patterns never split.  A file is a     *)
(* sequence of lines for the inserter and one token sequence for the two   *)
(* substitutions.                                                          *)
(***************************************************************************)
EXTENDS Integers, Sequences, FiniteSets

VARIABLES
  lines,    \* fix_parquet_funcs.py: the list `lines`
  i,        \* fix_parquet_funcs.py: the outer cursor `i` (0-based, as in the code)
  pc,       \* "scan" | "done" | "IndexError" for the inserter, "text" for the substitutions
  run,      \* how many times fix_parquet_funcs.py has been started on the file
  input,    \* the file as first read
  prev,     \* the file as written by the previous run of fix_parquet_funcs.py
  content,  \* fix_parquet_queries.py / fix_sprintf.py: the string `content`
  ran       \* the substitution scripts run so far, with the text each one read

vars == <<lines, i, pc, run, input, prev, content, ran>>

---------------------------------------------------------------------------
(* Bounds of the model *)

MaxLen == 4      \* lines in the file handed to the inserter
MaxRuns == 2     \* runs of a script on the same file
MaxPieces == 5   \* fragments a text is put together from

---------------------------------------------------------------------------
(* Text helpers *)

\* Python's `sub in text` on token sequences: a contiguous occurrence.
Contains(text, sub) ==
  \E k \in 0..(Len(text) - Len(sub)) :
    \A m \in 1..Len(sub) : text[k + m] = sub[m]

\* Python's list.insert(j, x) for 0 <= j <= len(l).
InsertAt(l, j, x) == SubSeq(l, 1, j) \o <<x>> \o SubSeq(l, j + 1, Len(l))

---------------------------------------------------------------------------
(* fix_parquet_funcs.py *)

functions_needing_fix ==
  << "GetEntryExitPages", "GetTopCountries", "GetTopSources", "GetTopEvents",
     "GetBrowsersDevicesOS", "GetChannels", "GetProjects" >>

\* f'func (r *eventRepository) {func_name}'
Marker(func_name) == << "func (r *eventRepository) ", func_name >>

\* the line the script inserts: f'{indent}parquetSource := r.getParquetSource()\n'
NewLine == << "\t", "parquetSource :=", " r.getParquetSource()", "\n" >>

\* The lines a file is made of here.
SigBraceLine == << "func (r *eventRepository) ", "GetTopCountries", "() ", "{", "\n" >>
SigOpenLine  == << "func (r *eventRepository) ", "GetChannels", "(", "\n" >>
BraceLine    == << "\t", ") error ", "{", "\n" >>
OtherSigLine == << "func (r *eventRepository) ", "GetOther", "() ", "{", "\n" >>
StmtLine     == << "\t", "// see ", "GetChannels", "\n" >>
BindLine     == NewLine

LineKinds ==
  { SigBraceLine, SigOpenLine, BraceLine, OtherSigLine, StmtLine, BindLine }

Files == UNION { [1..n -> LineKinds] : n \in 0..MaxLen }

\* lines[k] with Python's bounds: an index past the end raises IndexError.
At(l, k) == IF k >= 0 /\ k < Len(l) THEN l[k + 1] ELSE << "IndexError" >>
Raised(x) == x = << "IndexError" >>

\* the for loop over functions_needing_fix with its `if ... in line`
Matches(line) ==
  \E n \in 1..Len(functions_needing_fix) :
    Contains(line, Marker(functions_needing_fix[n]))

HasBrace(line) == Contains(line, << "{" >>)          \* '{' in lines[j]
HasBinding(line) == Contains(line, << "parquetSource :=" >>)

\* `j < len(lines)` of the while loop
ScanInBounds(l, j) == j < Len(l)

\* the bound of the if before the insert off by one
InsertInBoundsOffByOne(l, j) == j <= Len(l)

\* `j < len(lines)` of the if before the insert
InsertInBounds(l, j) == j < Len(l)

\* while j < len(lines) and '{' not in lines[j]: j += 1
\* The value of j when the loop ends, or -1 when lines[j] raised.
RECURSIVE ScanBrace(_, _)
ScanBrace(l, j) ==
  IF ScanInBounds(l, j)
  THEN IF Raised(At(l, j)) THEN -1
       ELSE IF ~HasBrace(At(l, j)) THEN ScanBrace(l, j + 1) ELSE j
  ELSE j

\* where the outer scan starts looking for the brace: j = i + 1
ScanStart(k) == k + 1

\* j after `j += 1  # Move past the opening brace`, or -1 when the scan raised
InsertionPoint(l, k) ==
  LET j == ScanBrace(l, ScanStart(k)) IN IF j = -1 THEN -1 ELSE j + 1

\* the check before the insert left out
MissingUnchecked(line) == TRUE

\* 'parquetSource :=' not in lines[j]
Missing(line) == ~HasBinding(line)

\* the cursor moved past the insertion point instead of past the tested line
NextCursorPastInsertion(l, k, j) == IF j = -1 THEN k + 1 ELSE j + 1

\* the outer cursor after one iteration: i += 1
NextCursor(l, k, j) == k + 1

\* One iteration of `while i < len(lines)`.
Iterate ==
  /\ pc = "scan"
  /\ i < Len(lines)
  /\ IF ~Matches(At(lines, i))
     THEN /\ lines' = lines
          /\ i' = NextCursor(lines, i, -1)
          /\ pc' = pc
     ELSE LET j == InsertionPoint(lines, i) IN
          IF j = -1 \/ (InsertInBounds(lines, j) /\ Raised(At(lines, j)))
          THEN /\ pc' = "IndexError"
               /\ UNCHANGED <<lines, i>>
          ELSE /\ lines' = IF InsertInBounds(lines, j) /\ Missing(At(lines, j))
                           THEN InsertAt(lines, j, NewLine)
                           ELSE lines
               /\ i' = NextCursor(lines, i, j)
               /\ pc' = pc
  /\ UNCHANGED <<run, input, prev, content, ran>>

\* The loop ends and the file is written back.
Finish ==
  /\ pc = "scan"
  /\ i >= Len(lines)
  /\ pc' = "done"
  /\ UNCHANGED <<lines, i, run, input, prev, content, ran>>

\* The script is started again on the file it wrote.
Rerun ==
  /\ pc = "done"
  /\ run < MaxRuns
  /\ run' = run + 1
  /\ prev' = lines
  /\ i' = 0
  /\ pc' = "scan"
  /\ UNCHANGED <<lines, input, content, ran>>

Init ==
  /\ lines \in Files
  /\ input = lines
  /\ prev = lines
  /\ i = 0
  /\ pc = "scan"
  /\ run = 1
  /\ content = << >>
  /\ ran = << >>

Next == Iterate \/ Finish \/ Rerun

Spec == Init /\ [][Next]_vars

\* The script is a sequential program: it takes its next step whenever it has one.
FairSpec == Spec /\ WF_vars(Next)

---------------------------------------------------------------------------
(* Python's re on token sequences *)

S  == "fmt.Sprintf("
BT == "<backtick>"                                \* the character that opens and closes a Go raw string
F  == "FROM %s"
W  == "whereClause"
P  == "parquetSource"
C  == "selectClause"
D  == "strftime(DATE_TRUNC(<q>month<q>, timestamp), <q>%%Y-%%m-01<q>) as date,"   \* <q> is the single quote

Whitespace == { " ", "\n", "\t" }                   \* what \s matches here

\* Pattern elements: a literal token, [^BT]* and \s+.
Lit(c) == [t |-> "lit", c |-> c]
NotBT  == [t |-> "notbt*", c |-> BT]
Spaces == [t |-> "ws+", c |-> " "]

Lits(toks) == [k \in 1..Len(toks) |-> Lit(toks[k])]

\* how many tokens from position p on are in the class of a repetition
RECURSIVE RunLength(_, _, _)
RunLength(el, text, p) ==
  IF p > Len(text) THEN 0
  ELSE IF (el.t = "notbt*" /\ text[p] # BT) \/ (el.t = "ws+" /\ text[p] \in Whitespace)
       THEN 1 + RunLength(el, text, p + 1)
       ELSE 0

\* the fewest repetitions [^BT]* may take
MinStar == 0

\* The backtracking matcher: the position after the match of elems[k..] at
\* position p of text, or 0 when there is none.  A repetition is greedy: it
\* takes the longest run first and gives tokens back one at a time.
RECURSIVE MatchFrom(_, _, _, _)
RECURSIVE GiveBack(_, _, _, _, _, _)
MatchFrom(elems, k, text, p) ==
  IF k > Len(elems) THEN p
  ELSE LET el == elems[k] IN
       IF el.t = "lit"
       THEN IF p <= Len(text) /\ text[p] = el.c
            THEN MatchFrom(elems, k + 1, text, p + 1)
            ELSE 0
       ELSE GiveBack(elems, k, text, p, RunLength(el, text, p),
                     IF el.t = "ws+" THEN 1 ELSE MinStar)

GiveBack(elems, k, text, p, n, least) ==
  IF n < least THEN 0
  ELSE LET e == MatchFrom(elems, k + 1, text, p + n) IN
       IF e # 0 THEN e ELSE GiveBack(elems, k, text, p, n - 1, least)

\* The text of group g of a match of pat that starts at p and ends before e.
\* Every group here either starts the pattern or is followed by literals only.
GroupText(pat, g, text, p, e) ==
  LET span  == pat.groups[g]
      n     == Len(pat.elems)
      last  == e - (n - span[2]) - 1
      first == IF span[1] = 1 THEN p ELSE e - (n - span[1]) - 1
  IN  SubSeq(text, first, last)

\* match.expand(repl): \g is group g, everything else is copied
RECURSIVE Expand(_, _, _, _, _)
Expand(pat, r, text, p, e) ==
  IF r > Len(pat.repl) THEN << >>
  ELSE (IF pat.repl[r].t = "group"
        THEN GroupText(pat, pat.repl[r].g, text, p, e)
        ELSE << pat.repl[r].c >>)
       \o Expand(pat, r + 1, text, p, e)

\* where re.sub goes on after a position without a match
Advance(p) == p + 1

\* re.sub(pattern, repl, text): leftmost matches, left to right, not overlapping
RECURSIVE SubFrom(_, _, _)
SubFrom(pat, text, p) ==
  IF p > Len(text) THEN << >>
  ELSE LET e == MatchFrom(pat.elems, 1, text, p) IN
       IF e # 0
       THEN Expand(pat, 1, text, p, e) \o SubFrom(pat, text, e)
       ELSE << text[p] >> \o SubFrom(pat, text, Advance(p))

ReSub(pat, text) == SubFrom(pat, text, 1)

Group(g) == [t |-> "group", g |-> g, c |-> ""]
Copy(toks) == [k \in 1..Len(toks) |-> [t |-> "copy", g |-> 0, c |-> toks[k]]]

---------------------------------------------------------------------------
(* fix_parquet_queries.py *)

\* the pattern without its guard
GeneralElemsUnguarded ==
  << Lit(S), Lit(BT), NotBT, Lit(BT) >> \o Lits(<< ",", " ", W, ")" >>)

\* (fmt\.Sprintf\(BT[^BT]*FROM %s[^BT]*BT), whereClause\)
GeneralElems ==
  << Lit(S), Lit(BT), NotBT, Lit(F), NotBT, Lit(BT) >> \o Lits(<< ",", " ", W, ")" >>)

\* \1, parquetSource, whereClause)
GeneralRepl == << Group(1) >> \o Copy(<< ",", " ", P, ",", " ", W, ")" >>)

GeneralPattern ==
  [ elems  |-> GeneralElems,
    groups |-> << << 1, Len(GeneralElems) - 4 >> >>,
    repl   |-> GeneralRepl ]

---------------------------------------------------------------------------
(* fix_sprintf.py *)

\* (strftime\(DATE_TRUNC\(<q>month<q>, timestamp\), <q>%%Y-%%m-01<q>\) as date, \n\s+%s\n\s+
\*    FROM %s \n\s+WHERE %s\n\s+GROUP BY date \n\s+ORDER BY date\n\s+BT),
\*    (selectClause), (whereClause)\)
MonthTemplate ==
  Lits(<< D, " ", "\n" >>) \o << Spaces >> \o Lits(<< "%s", "\n" >>) \o << Spaces >>
  \o Lits(<< F, " ", "\n" >>) \o << Spaces >> \o Lits(<< "WHERE %s", "\n" >>) \o << Spaces >>
  \o Lits(<< "GROUP BY date", " ", "\n" >>) \o << Spaces >>
  \o Lits(<< "ORDER BY date", "\n" >>) \o << Spaces >> \o << Lit(BT) >>

MonthElems == MonthTemplate \o Lits(<< ",", " ", C, ",", " ", W, ")" >>)

\* the replacement with group 2 forgotten
MonthReplNoSelect ==
  << Group(1) >> \o Copy(<< ",", " ", P, ",", " " >>) \o << Group(3) >> \o Copy(<< ")" >>)

\* \1, \2, parquetSource, \3)
MonthRepl ==
  << Group(1) >> \o Copy(<< ",", " " >>) \o << Group(2) >>
  \o Copy(<< ",", " ", P, ",", " " >>) \o << Group(3) >> \o Copy(<< ")" >>)

MonthPattern ==
  [ elems  |-> MonthElems,
    groups |-> << << 1, Len(MonthTemplate) >>,
                  << Len(MonthTemplate) + 3, Len(MonthTemplate) + 3 >>,
                  << Len(MonthTemplate) + 6, Len(MonthTemplate) + 6 >> >>,
    repl   |-> MonthRepl ]

---------------------------------------------------------------------------
(* The texts handed to the two substitutions *)

RECURSIVE Flatten(_)
Flatten(ps) == IF ps = << >> THEN << >> ELSE Head(ps) \o Flatten(Tail(ps))

WhereTail == << ",", " ", W, ")" >>                  \* ", whereClause)"
FixedTail == << ",", " ", P, ",", " ", W, ")" >>     \* ", parquetSource, whereClause)"
SelectTail == << ",", " ", C, ",", " ", W, ")" >>    \* ", selectClause, whereClause)"
SelectFixedTail == << ",", " ", C, ",", " ", P, ",", " ", W, ")" >>

\* Texts put together from the fragments the general pattern is made of, in
\* every order.
Pieces ==
  { << S, BT >>, << S, BT, F >>, << S >>, << F >>, << BT >> \o WhereTail }

PieceTexts == { Flatten(ps) : ps \in UNION { [1..n -> Pieces] : n \in 0..MaxPieces } }

\* One fmt.Sprintf call: a raw-string template with or without the guard, and
\* an argument list with any layout of white space.
Call(pre, guarded, post, ws1, ws2, ws3, args) ==
  << S, BT >> \o pre \o (IF guarded THEN << F >> ELSE << >>) \o post \o << BT >>
  \o ws1 \o << "," >> \o ws2 \o args \o ws3 \o << ")" >>

PlainCall(guarded) ==
  Call(<< "SELECT x ">>, guarded, << " ", "WHERE %s" >>, << >>, << " " >>, << >>, << W >>)

Calls ==
  { Call(pre, guarded, post, ws1, ws2, ws3, args) :
      pre \in { << >>, << "SELECT x ", "\n", "\t" >> },
      guarded \in BOOLEAN,
      post \in { << >>, << " ", "WHERE %s", "\n" >> },
      ws1 \in { << >>, << " " >> },
      ws2 \in { << >>, << " " >>, << " ", " " >>, << "\n", "\t" >> },
      ws3 \in { << >>, << " " >>, << "\n" >> },
      args \in { << W >>, << P, ",", " ", W >>, << C, ",", " ", W >> } }

Before == { << >>, << "q1 := " >> \o PlainCall(TRUE) \o << "\n", "q2 := " >> }
After  == { << >>, << "\n", "q3 := " >> \o PlainCall(FALSE) \o << "\n" >> }

CallTexts == { b \o c \o a : b \in Before, c \in Calls, a \in After }

\* The month-timeline call: six runs of white space inside the template, one
\* of which may be missing, and an argument list.
Gap(g, k, missing) == IF k = missing THEN << >> ELSE g

MonthCall(lead, g, missing, tail) ==
  << S, BT >> \o lead \o << D, " ", "\n" >> \o Gap(g, 1, missing)
  \o << "%s", "\n" >> \o Gap(g, 2, missing)
  \o << F, " ", "\n" >> \o Gap(g, 3, missing)
  \o << "WHERE %s", "\n" >> \o Gap(g, 4, missing)
  \o << "GROUP BY date", " ", "\n" >> \o Gap(g, 5, missing)
  \o << "ORDER BY date", "\n" >> \o Gap(g, 6, missing)
  \o << BT >> \o tail

MonthCalls ==
  { MonthCall(lead, g, missing, tail) :
      lead \in { << "SELECT ", "\n", "\t" >>, WhereTail \o << " " >> },
      g \in { << "\t", "\t" >>, << " ", "\n", " " >> },
      missing \in 0..6,
      tail \in { SelectTail, SelectFixedTail, WhereTail,
                 << ",", "\n", "\t", C, ",", " ", W, ")" >> } }

MonthBefore == Before \cup { << S, BT, F, " ", "-- " >> }

MonthTexts == { b \o c \o a : b \in MonthBefore, c \in MonthCalls, a \in After }

Texts == PieceTexts \cup CallTexts \cup MonthTexts

---------------------------------------------------------------------------
(* Running fix_parquet_queries.py and fix_sprintf.py on a file *)

\* fix_parquet_queries.py: read, re.sub, write back
RunQueries ==
  /\ pc = "text"
  /\ Len(ran) < MaxRuns
  /\ content' = ReSub(GeneralPattern, content)
  /\ ran' = Append(ran, [script |-> "fix_parquet_queries", read |-> content])
  /\ UNCHANGED <<lines, i, pc, run, input, prev>>

\* fix_sprintf.py: read, re.sub, write back
RunSprintf ==
  /\ pc = "text"
  /\ Len(ran) < MaxRuns
  /\ content' = ReSub(MonthPattern, content)
  /\ ran' = Append(ran, [script |-> "fix_sprintf", read |-> content])
  /\ UNCHANGED <<lines, i, pc, run, input, prev>>

RewriteInit ==
  /\ content \in Texts
  /\ input = content
  /\ ran = << >>
  /\ pc = "text"
  /\ lines = << >>
  /\ prev = << >>
  /\ i = 0
  /\ run = 0

RewriteNext == RunQueries \/ RunSprintf

RewriteSpec == RewriteInit /\ [][RewriteNext]_vars

\* The same two scripts on the files that hold a month-timeline call.
MonthInit ==
  /\ content \in MonthTexts
  /\ input = content
  /\ ran = << >>
  /\ pc = "text"
  /\ lines = << >>
  /\ prev = << >>
  /\ i = 0
  /\ run = 0

MonthSpec == MonthInit /\ [][RewriteNext]_vars

---------------------------------------------------------------------------
(* Properties of fix_parquet_funcs.py *)

\* a line that starts a method of the repository type, target or not
StartsFunction(line) == Contains(line, << "func (r *eventRepository) " >>)

\* The line holding the opening '{' of the function whose signature starts at
\* line k: line k itself when the brace is on it, else the first later line
\* with a brace (Len(l) when there is none).
RECURSIVE FirstBrace(_, _)
FirstBrace(l, k) ==
  IF k >= Len(l) THEN Len(l)
  ELSE IF HasBrace(At(l, k)) THEN k ELSE FirstBrace(l, k + 1)

OpeningLine(l, k) == FirstBrace(l, k)

\* the cursor stands on a line that matches a target
AtMatch == pc = "scan" /\ i < Len(lines) /\ Matches(At(lines, i))

\* C1: once the script has run, running it again changes nothing: during
\* and after every later run the file equals what the previous run wrote.
C1_Idempotent == run > 1 => lines = prev

\* a second run has finished on a file into which the first run inserted
C1_Witness == run = 2 /\ pc = "done" /\ Len(lines) > Len(input)

\* C2 as claimed: whenever a target signature is matched and the first line
\* after the function's opening brace exists and lacks the binding, the new
\* line is inserted right after the line holding that opening brace, be the
\* brace on the signature line or on a later one.
C2_InsertedAtBodyStart ==
  [][ (AtMatch
        /\ OpeningLine(lines, i) + 1 < Len(lines)
        /\ Missing(At(lines, OpeningLine(lines, i) + 1)))
      => lines' = InsertAt(lines, OpeningLine(lines, i) + 1, NewLine) ]_vars

\* the function a line belongs to: the nearest function start at or before it
RECURSIVE Owner(_, _)
Owner(l, k) ==
  IF k < 0 THEN -1
  ELSE IF StartsFunction(At(l, k)) THEN k ELSE Owner(l, k - 1)

TargetStarts(l) == { k \in 0..(Len(l) - 1) : Matches(At(l, k)) }
Bindings(l) == { k \in 0..(Len(l) - 1) : HasBinding(At(l, k)) }

\* every target function of the file has its opening brace and a first body
\* line that belongs to it
WellFormed(l) ==
  \A k \in TargetStarts(l) :
    /\ OpeningLine(l, k) + 1 < Len(l)
    /\ Owner(l, OpeningLine(l, k) + 1) = k

\* C3 as claimed: on a file whose N target functions hold no binding, one run
\* inserts exactly N lines, one in the body of each target function and none
\* in the body of another function.
C3_TargetingPrecise ==
  (pc = "done" /\ run = 1 /\ Bindings(input) = {} /\ WellFormed(input))
    => /\ Cardinality(Bindings(lines)) = Cardinality(TargetStarts(input))
       /\ \A k \in Bindings(lines) :
            /\ Owner(lines, k) # -1
            /\ Matches(At(lines, Owner(lines, k)))
       /\ \A k \in TargetStarts(lines) :
            Cardinality({ b \in Bindings(lines) : Owner(lines, b) = k }) = 1

\* C9 as claimed: after a match whose insertion point lies in the file, the
\* outer scan resumes at the line after the insertion point.
C9_ResumesAfterInsertionPoint ==
  [][ (AtMatch /\ pc' = "scan" /\ InsertionPoint(lines, i) < Len(lines))
      => i' = InsertionPoint(lines, i) + 1 ]_vars

\* C9 as amended: every iteration, matched or not, inserted or not, moves the
\* cursor to the line right after the one it tested, and leaves the lines up
\* to and including that one as they were; so the lines between a matched
\* signature and its insertion point are tested too, and no line is tested
\* twice in a run.
C9_ResumesAtNextLine ==
  [][ (pc = "scan" /\ i < Len(lines) /\ pc' = "scan")
      => /\ i' = i + 1
         /\ SubSeq(lines', 1, i + 1) = SubSeq(lines, 1, i + 1) ]_vars

\* the cursor stands right after a matched signature whose insertion was made
\* two or more lines further down
C9_Witness ==
  /\ pc = "scan" /\ run = 1 /\ i >= 1
  /\ Matches(At(lines, i - 1))
  /\ Len(lines) > Len(input)
  /\ i + 1 < Len(lines) /\ At(lines, i + 1) = NewLine /\ At(input, i + 1) # NewLine

\* no line after line k holds a '{'
NoBraceAfter(l, k) == \A m \in (k + 1)..(Len(l) - 1) : ~HasBrace(At(l, m))

\* C10: every run of the script ends, no index outside the list is read,
\* and a match with no '{' on any later line inserts nothing and the scan
\* goes on with the next line.
C10_Terminates ==
  /\ <>[](pc = "done")
  /\ [](pc # "IndexError")
  /\ [][ (AtMatch /\ NoBraceAfter(lines, i))
         => (lines' = lines /\ i' = i + 1 /\ pc' = "scan") ]_vars

\* a run has ended on a file holding a target signature with no '{' after it
C10_Witness ==
  /\ pc = "done"
  /\ \E k \in TargetStarts(input) : k + 1 < Len(input) /\ NoBraceAfter(input, k)
  /\ lines = input

---------------------------------------------------------------------------
(* Properties of fix_parquet_queries.py and fix_sprintf.py *)

\* the first backtick at or after position p (Len(text) + 1 when there is none)
RECURSIVE NextBT(_, _)
NextBT(text, p) ==
  IF p > Len(text) THEN Len(text) + 1
  ELSE IF text[p] = BT THEN p ELSE NextBT(text, p + 1)

\* a fmt.Sprintf call with a raw-string template starts at position p
IsCallAt(text, p) ==
  /\ p + 1 <= Len(text)
  /\ text[p] = S /\ text[p + 1] = BT
  /\ NextBT(text, p + 2) <= Len(text)

ClosingBT(text, p) == NextBT(text, p + 2)
Template(text, p) == SubSeq(text, p + 2, ClosingBT(text, p) - 1)
Guarded(text, p) == Contains(Template(text, p), << F >>)

\* the tokens that follow position q are exactly tail
HasTail(text, q, tail) ==
  q + Len(tail) <= Len(text) /\ SubSeq(text, q + 1, q + Len(tail)) = tail

\* the text script number k wrote
Wrote(k) == IF k = Len(ran) THEN content ELSE ran[k + 1].read

\* The ends of the matches re.sub finds in text, each the position after its match.
RECURSIVE MatchEnds(_, _, _)
MatchEnds(pat, text, p) ==
  IF p > Len(text) THEN {}
  ELSE LET e == MatchFrom(pat.elems, 1, text, p) IN
       IF e # 0 THEN {e} \cup MatchEnds(pat, text, e)
       ELSE MatchEnds(pat, text, Advance(p))

\* the last token of a call: the ")" of ", whereClause)" when that follows the
\* template, else the closing backtick
CallEnd(text, p) ==
  IF HasTail(text, ClosingBT(text, p), WhereTail)
  THEN ClosingBT(text, p) + Len(WhereTail)
  ELSE ClosingBT(text, p)

\* how far the general substitution moves position p to the right: it adds
\* three tokens after the closing backtick of every match, which stands five
\* tokens before the match's end
MovedBy(text, p) ==
  3 * Cardinality({ e \in MatchEnds(GeneralPattern, text, 1) : e - 5 < p })

\* C5 as claimed: fix_parquet_queries.py writes every call whose template
\* lacks the guard as it read it, token for token.
C5_GuardlessUntouched ==
  \A k \in 1..Len(ran) :
    ran[k].script = "fix_parquet_queries" =>
      LET t == ran[k].read IN
      \A p \in 1..Len(t) :
        (IsCallAt(t, p) /\ ~Guarded(t, p)) =>
          SubSeq(Wrote(k), p + MovedBy(t, p), CallEnd(t, p) + MovedBy(t, p))
            = SubSeq(t, p, CallEnd(t, p))

\* C6 as claimed: a script run again on the text it wrote writes the same text.
C6_Idempotent ==
  \A k \in 2..Len(ran) :
    ran[k].script = ran[k - 1].script => Wrote(k) = ran[k].read

\* What the general substitution is to do, read off the text without the
\* pattern: from left to right, every call whose template holds the guard and
\* is followed by exactly ", whereClause)" gets ", parquetSource" after its
\* closing backtick; everything else is copied.
RECURSIVE RewriteCalls(_, _)
RewriteCalls(text, p) ==
  IF p > Len(text) THEN << >>
  ELSE IF IsCallAt(text, p) /\ Guarded(text, p)
          /\ HasTail(text, ClosingBT(text, p), WhereTail)
       THEN SubSeq(text, p, ClosingBT(text, p)) \o FixedTail
            \o RewriteCalls(text, ClosingBT(text, p) + Len(WhereTail) + 1)
       ELSE << text[p] >> \o RewriteCalls(text, p + 1)

RECURSIVE Strip(_)
Strip(text) ==
  IF text = << >> THEN << >>
  ELSE (IF Head(text) \in Whitespace THEN << >> ELSE << Head(text) >>) \o Strip(Tail(text))

\* the text is one call with the guard whose only argument is whereClause,
\* in whatever layout
LooseCall(text) ==
  /\ IsCallAt(text, 1) /\ Guarded(text, 1)
  /\ Strip(SubSeq(text, ClosingBT(text, 1) + 1, Len(text))) = << ",", W, ")" >>

\* C8 as claimed: such a call is rewritten whatever the white space between
\* the closing backtick, the comma, the argument and the parenthesis.
C8_WhitespaceTolerant ==
  (Len(ran) = 1 /\ ran[1].script = "fix_parquet_queries" /\ LooseCall(input))
    => /\ Template(content, 1) = Template(input, 1)
       /\ Strip(SubSeq(content, ClosingBT(content, 1) + 1, Len(content)))
            = << ",", P, ",", W, ")" >>

\* the first ")" at or after position p (Len(text) when there is none)
RECURSIVE FirstClose(_, _)
FirstClose(text, p) ==
  IF p >= Len(text) THEN Len(text)
  ELSE IF text[p] = ")" THEN p ELSE FirstClose(text, p + 1)

\* the template of the call at p ends with the month-timeline text
MonthTemplateAt(text, p) ==
  \E d \in (p + 2)..ClosingBT(text, p) :
    text[d] = D /\ MatchFrom(MonthTemplate, 1, text, d) = ClosingBT(text, p) + 1

\* The calls whose template holds the month-timeline select, left to right:
\* where each starts, whether its template is the month-timeline one, and
\* its argument list.
RECURSIVE MonthCallsFrom(_, _)
MonthCallsFrom(text, p) ==
  IF p > Len(text) THEN << >>
  ELSE IF IsCallAt(text, p) /\ Contains(Template(text, p), << D >>)
       THEN << [ at   |-> p,
                 ok   |-> MonthTemplateAt(text, p),
                 args |-> SubSeq(text, ClosingBT(text, p) + 1,
                                 FirstClose(text, ClosingBT(text, p) + 1)) ] >>
            \o MonthCallsFrom(text, ClosingBT(text, p) + 1)
       ELSE MonthCallsFrom(text, p + 1)

MonthCallsOf(text) == MonthCallsFrom(text, 1)

\* the month-timeline calls of text b are those of text a, with ", parquetSource"
\* in the argument list of each one that had ", selectClause, whereClause)"
MonthCallsFixed(a, b) ==
  LET ca == MonthCallsOf(a)
      cb == MonthCallsOf(b)
  IN  /\ Len(ca) = Len(cb)
      /\ \A k \in 1..Len(ca) :
           (ca[k].ok /\ ca[k].args = SelectTail)
             => (cb[k].ok /\ cb[k].args = SelectFixedTail)

=============================================================================
